---------------------------- MODULE Spec2Model ----------------------------
(***************************************************************************)
(* A model of the serial-number library (src/src/lib.rs): Block::produce,  *)
(* Pair::produce, checksum, Key::create, Key::valid, and the text forms of *)
(* Secret and Key (FromStr / Display).                                     *)
(*                                                                         *)
(* Representation.                                                         *)
(*   Byte  (u8)   a number in 0..255.                                      *)
(*   Seed  (i64)  its 8 bytes in big-endian order, two's complement, as    *)
(*                i64::to_be_bytes gives them: TLC's integers are 32 bits  *)
(*                wide, so a 64-bit value is kept as its bytes and every   *)
(*                operation on it is done on its bits.                     *)
(*   &str         the sequence of its UTF-8 bytes, one string per byte.    *)
(*                An ASCII byte is the one-character string; the two bytes *)
(*                of U+00E9 are LeadByte and ContByte.                     *)
(*   Result<T,E>  a record [tag, ...], tag "Ok" or the Error variant;      *)
(*                tag "Panic" is a panic of the thread.                    *)
(***************************************************************************)
EXTENDS Integers, Sequences, FiniteSets, TLC

VARIABLES
    op,       \* the last operation of the library that was called
    secret,   \* the Secret in hand: a sequence of Pair<Block>
    seed,     \* the Seed given to the last Key::create / Block::produce
    key,      \* the Key in hand: [seed, pairs, checksum]
    res,      \* the outcome of the last operation: "Ok", an Error variant,
              \* "Panic", "true" or "false"
    block,    \* the Block given to the last Block::produce
    byte,     \* the Byte the last Block::produce returned
    text,     \* the text given to the last from_str
    out,      \* the text the last fmt wrote
    parsed,   \* the Key the last Key::from_str returned
    ck        \* the frame of a running checksum call

vars == <<op, secret, seed, key, res, block, byte, text, out, parsed, ck>>

-----------------------------------------------------------------------------
(* Bytes and bits *)

Pow2(n) == 2^n

\* bit i (0 = least significant) of the byte x
BitOf(x, i) == (x \div Pow2(i)) % 2

\* the byte whose bit i is f[i]
FromBits(f) ==
    f[0] + 2*f[1] + 4*f[2] + 8*f[3] + 16*f[4] + 32*f[5] + 64*f[6] + 128*f[7]

\* u8 | u8
BitOr(x, y) ==
    FromBits([i \in 0..7 |-> IF BitOf(x, i) = 1 \/ BitOf(y, i) = 1 THEN 1 ELSE 0])

\* u8 & u8
BitAnd(x, y) ==
    FromBits([i \in 0..7 |-> IF BitOf(x, i) = 1 /\ BitOf(y, i) = 1 THEN 1 ELSE 0])

\* u8 ^ u8
BitXor(x, y) ==
    FromBits([i \in 0..7 |-> IF BitOf(x, i) # BitOf(y, i) THEN 1 ELSE 0])

-----------------------------------------------------------------------------
(* Seed = i64, kept as its big-endian bytes *)

\* seed.to_be_bytes()
to_be_bytes(s) == s

\* bit i (0..63) of the i64 s
SeedBit(s, i) == BitOf(s[8 - (i \div 8)], i % 8)

\* s >> k on an i64: an arithmetic shift, the sign bit (bit 63) fills in
Shr(s, k) ==
    [j \in 1..8 |->
        FromBits([i \in 0..7 |->
            LET src == (8 - j) * 8 + i + k
            IN  SeedBit(s, IF src > 63 THEN 63 ELSE src)])]

\* u8::try_from(i64): Ok for a value in 0..=255, else TryFromIntError,
\* which `?` turns into Error::InvalidInt
TryIntoU8(s) ==
    IF \A j \in 1..7 : s[j] = 0
    THEN [tag |-> "Ok", val |-> s[8]]
    ELSE [tag |-> "InvalidInt", val |-> 0]

\* u8::try_from(u16)
TryIntoU8FromU16(x) ==
    IF x <= 255
    THEN [tag |-> "Ok", val |-> x]
    ELSE [tag |-> "InvalidInt", val |-> 0]

-----------------------------------------------------------------------------
(* Block, Pair<Block>, Pair<Byte> *)

\* Block::new
Block_new(a, b, c) == [a |-> a, b |-> b, c |-> c]

Pair(l, r) == [left |-> l, right |-> r]

\* Block::produce
Block_produce(blk, s) ==
    LET a == TryIntoU8(Shr(s, blk.a % 25))
        b == TryIntoU8(Shr(s, blk.b % 3))
        c == IF blk.a % 2 = 0 THEN BitOr(b.val, blk.c) ELSE BitAnd(b.val, blk.c)
    IN  IF a.tag # "Ok" THEN a
        ELSE IF b.tag # "Ok" THEN b
        ELSE [tag |-> "Ok", val |-> BitXor(a.val, c)]

\* Pair<Block>::produce
Pair_produce(p, s) ==
    LET l == Block_produce(p.left, s)
        r == Block_produce(p.right, s)
    IN  IF l.tag # "Ok" THEN [tag |-> l.tag, val |-> Pair(0, 0)]
        ELSE IF r.tag # "Ok" THEN [tag |-> r.tag, val |-> Pair(0, 0)]
        ELSE [tag |-> "Ok", val |-> Pair(l.val, r.val)]

-----------------------------------------------------------------------------
(* checksum *)

\* the two u16 accumulators as checksum declares them
ChecksumInit == [left |-> 86, right |-> 175]

\* u16 + u16; an overflow panics in a debug build and wraps in a release
\* build: the sum is kept to 16 bits here and the steps below watch for it
AddU16(x, y) == (x + y) % 65536

\* update with the second conditional subtraction left out
update_NoLeftWrap(acc, b) ==
    LET r0 == acc.right + b
        r1 == IF AddU16(acc.right, b) > 255
              THEN AddU16(acc.right, b) - 255 ELSE AddU16(acc.right, b)
        l0 == acc.left + r1
    IN  [left |-> AddU16(acc.left, r1), right |-> r1, preLeft |-> l0, preRight |-> r0]

\* one turn of the loop of the closure `update`, for one byte; preRight and
\* preLeft are the two sums before their conditional subtraction
update(acc, b) ==
    LET r0 == acc.right + b
        r1 == IF AddU16(acc.right, b) > 255
              THEN AddU16(acc.right, b) - 255 ELSE AddU16(acc.right, b)
        l0 == acc.left + r1
        l1 == IF AddU16(acc.left, r1) > 255
              THEN AddU16(acc.left, r1) - 255 ELSE AddU16(acc.left, r1)
    IN  [left |-> l1, right |-> r1, preLeft |-> l0, preRight |-> r0]

\* the bytes checksum feeds to update, in order: the seed's 8 bytes,
\* big-endian, then each pair's left and right
RECURSIVE PairBytes(_)
PairBytes(pairs) ==
    IF pairs = <<>> THEN <<>>
    ELSE <<Head(pairs).left, Head(pairs).right>> \o PairBytes(Tail(pairs))

ChecksumInput(s, pairs) == to_be_bytes(s) \o PairBytes(pairs)

RECURSIVE UpdateAll(_, _)
UpdateAll(acc, bs) ==
    IF bs = <<>> THEN acc
    ELSE UpdateAll([left |-> update(acc, Head(bs)).left,
                    right |-> update(acc, Head(bs)).right], Tail(bs))

\* the end of checksum: both accumulators narrowed to a byte
ChecksumResult(acc) ==
    LET l == TryIntoU8FromU16(acc.left)
        r == TryIntoU8FromU16(acc.right)
    IN  IF l.tag # "Ok" THEN [tag |-> l.tag, val |-> Pair(0, 0)]
        ELSE IF r.tag # "Ok" THEN [tag |-> r.tag, val |-> Pair(0, 0)]
        ELSE [tag |-> "Ok", val |-> Pair(l.val, r.val)]

\* fn checksum
checksum(s, pairs) ==
    ChecksumResult(UpdateAll(ChecksumInit, ChecksumInput(s, pairs)))

-----------------------------------------------------------------------------
(* Key *)

NoKey == [seed |-> <<0, 0, 0, 0, 0, 0, 0, 0>>, pairs |-> <<>>, checksum |-> Pair(0, 0)]

\* the iterator of Key::create: map produce over the pairs and collect
\* into a Result, which stops at the first Err
RECURSIVE CollectProduce(_, _)
CollectProduce(ps, s) ==
    IF ps = <<>> THEN [tag |-> "Ok", val |-> <<>>]
    ELSE LET h == Pair_produce(Head(ps), s)
         IN  IF h.tag # "Ok" THEN [tag |-> h.tag, val |-> <<>>]
             ELSE LET t == CollectProduce(Tail(ps), s)
                  IN  IF t.tag # "Ok" THEN t
                      ELSE [tag |-> "Ok", val |-> <<h.val>> \o t.val]

\* Key::create
Key_create(s, sec) ==
    LET pairs == CollectProduce(sec, s)
    IN  IF pairs.tag # "Ok" THEN [tag |-> pairs.tag, val |-> NoKey]
        ELSE LET sum == checksum(s, pairs.val)
             IN  IF sum.tag # "Ok" THEN [tag |-> sum.tag, val |-> NoKey]
                 ELSE [tag |-> "Ok",
                       val |-> [seed |-> s, pairs |-> pairs.val, checksum |-> sum.val]]

\* Key::valid with a comparison that leaves the checksum out
Key_valid_NoChecksum(k, sec) ==
    LET valid_key == Key_create(k.seed, sec)
    IN  IF valid_key.tag = "Ok"
        THEN k.seed = valid_key.val.seed /\ k.pairs = valid_key.val.pairs
        ELSE FALSE

\* Key::valid: the derived PartialEq of Key compares seed, pairs, checksum
Key_valid(k, sec) ==
    LET valid_key == Key_create(k.seed, sec)
    IN  IF valid_key.tag = "Ok" THEN k = valid_key.val ELSE FALSE

-----------------------------------------------------------------------------
(* Text: a &str as the sequence of its UTF-8 bytes *)

\* the two bytes of the character U+00E9, which UTF-8 writes as C3 A9
LeadByte == "<C3>"
ContByte == "<A9>"

UpperHex == <<"0", "1", "2", "3", "4", "5", "6", "7",
              "8", "9", "A", "B", "C", "D", "E", "F">>
LowerHex == <<"0", "1", "2", "3", "4", "5", "6", "7",
              "8", "9", "a", "b", "c", "d", "e", "f">>

\* char::to_digit(16): the digit's value, -1 for None
to_digit(c) ==
    IF \E i \in 1..16 : UpperHex[i] = c
    THEN (CHOOSE i \in 1..16 : UpperHex[i] = c) - 1
    ELSE IF \E i \in 1..16 : LowerHex[i] = c
    THEN (CHOOSE i \in 1..16 : LowerHex[i] = c) - 1
    ELSE -1

\* str::split("-"): the items between the dashes; always at least one item
RECURSIVE split(_)
split(t) ==
    IF \A i \in 1..Len(t) : t[i] # "-" THEN <<t>>
    ELSE LET d == CHOOSE i \in 1..Len(t) : t[i] = "-" /\ \A j \in 1..(i - 1) : t[j] # "-"
         IN  <<SubSeq(t, 1, d - 1)>> \o split(SubSeq(t, d + 1, Len(t)))

\* str::is_char_boundary(i), i a byte offset
is_char_boundary(t, i) ==
    \/ i = 0
    \/ i = Len(t)
    \/ i < Len(t) /\ t[i + 1] # ContByte

\* &t[i..j]: panics unless both ends are character boundaries
Slice(t, i, j) ==
    IF i <= j /\ j <= Len(t) /\ is_char_boundary(t, i) /\ is_char_boundary(t, j)
    THEN [tag |-> "Ok", val |-> SubSeq(t, i + 1, j)]
    ELSE [tag |-> "Panic", val |-> <<>>]

\* from_str_radix strips one leading '+' (and, for a signed type, takes one
\* leading '-', which no item of a split on "-" can hold); a sign alone, the
\* empty string and any other non-digit are a ParseIntError
Unsigned(s) == IF s # <<>> /\ s[1] = "+" THEN Tail(s) ELSE s

AllDigits(s) == s # <<>> /\ \A i \in 1..Len(s) : to_digit(s[i]) >= 0

\* u8::from_str_radix(s, 16); `?` turns ParseIntError into InvalidFormat
u8_from_str_radix(s) ==
    LET d == Unsigned(s)
    IN  IF ~AllDigits(d) THEN [tag |-> "InvalidFormat", val |-> 0]
        ELSE LET n == Len(d)
                 lead == CHOOSE k \in 0..n :
                            /\ \A i \in 1..k : to_digit(d[i]) = 0
                            /\ (k < n => to_digit(d[k + 1]) # 0)
                 m == n - lead
             IN  IF m > 2 THEN [tag |-> "InvalidFormat", val |-> 0]
                 ELSE IF m = 2
                 THEN [tag |-> "Ok", val |-> 16 * to_digit(d[n - 1]) + to_digit(d[n])]
                 ELSE IF m = 1
                 THEN [tag |-> "Ok", val |-> to_digit(d[n])]
                 ELSE [tag |-> "Ok", val |-> 0]

\* the 16 hexadecimal digits (values) of an i64, most significant first
Nibbles(s) == [i \in 1..16 |->
                 IF i % 2 = 1 THEN s[(i + 1) \div 2] \div 16 ELSE s[i \div 2] % 16]

\* i64::from_str_radix(s, 16): more than 63 bits of value is an overflow
i64_from_str_radix(s) ==
    LET d == Unsigned(s)
    IN  IF ~AllDigits(d) THEN [tag |-> "InvalidFormat", val |-> NoKey.seed]
        ELSE LET n == Len(d)
                 lead == CHOOSE k \in 0..n :
                            /\ \A i \in 1..k : to_digit(d[i]) = 0
                            /\ (k < n => to_digit(d[k + 1]) # 0)
                 m == n - lead
             IN  IF m > 16 \/ (m = 16 /\ to_digit(d[lead + 1]) > 7)
                 THEN [tag |-> "InvalidFormat", val |-> NoKey.seed]
                 ELSE LET nib == [i \in 1..16 |->
                                    IF i <= 16 - m THEN 0
                                    ELSE to_digit(d[n - (16 - i)])]
                      IN  [tag |-> "Ok",
                           val |-> [j \in 1..8 |-> 16 * nib[2 * j - 1] + nib[2 * j]]]

\* "{:02X}" with the two digits in the wrong order
Hex2_LowDigitFirst(b) == <<UpperHex[(b % 16) + 1], UpperHex[(b \div 16) + 1]>>

\* "{:02X}" of a u8
Hex2(b) == <<UpperHex[(b \div 16) + 1], UpperHex[(b % 16) + 1]>>

\* "{:04X}" of an i64: UpperHex writes the two's-complement bits as an
\* unsigned number, without leading zeros, padded with zeros to 4 digits
Hex4(s) ==
    LET nib == Nibbles(s)
        lead == CHOOSE k \in 0..15 :
                   /\ \A i \in 1..k : nib[i] = 0
                   /\ (k < 15 => nib[k + 1] # 0)
        first == IF lead > 12 THEN 13 ELSE lead + 1
    IN  [i \in 1..(17 - first) |-> UpperHex[nib[first + i - 1] + 1]]

-----------------------------------------------------------------------------
(* Secret and Key as text *)

\* impl Display for Block
Block_fmt(b) == Hex2(b.a) \o Hex2(b.b) \o Hex2(b.c)

\* impl Display for Pair<Block>
PairBlock_fmt(p) == Block_fmt(p.left) \o Block_fmt(p.right)

\* impl Display for Pair<Byte>
PairByte_fmt(p) == Hex2(p.left) \o Hex2(p.right)

\* impl Display for Secret
RECURSIVE Secret_fmt(_)
Secret_fmt(sec) ==
    IF sec = <<>> THEN <<>>
    ELSE IF Len(sec) = 1 THEN PairBlock_fmt(sec[1])
    ELSE PairBlock_fmt(sec[1]) \o <<"-">> \o Secret_fmt(Tail(sec))

RECURSIVE PairsFmt(_)
PairsFmt(ps) ==
    IF ps = <<>> THEN <<>>
    ELSE <<"-">> \o PairByte_fmt(Head(ps)) \o PairsFmt(Tail(ps))

\* impl Display for Key
Key_fmt(k) == Hex4(k.seed) \o PairsFmt(k.pairs) \o <<"-">> \o PairByte_fmt(k.checksum)

\* u8::from_str_radix(&fragment[i..i+2], 16)?
ParseByteAt(fragment, i) ==
    LET s == Slice(fragment, i, i + 2)
    IN  IF s.tag # "Ok" THEN [tag |-> s.tag, val |-> 0]
        ELSE u8_from_str_radix(s.val)

\* the n bytes of a fragment, parsed left to right; the first slice that
\* panics or parse that fails ends it
RECURSIVE ParseBytes(_, _, _)
ParseBytes(fragment, i, n) ==
    IF n = 0 THEN [tag |-> "Ok", val |-> <<>>]
    ELSE LET h == ParseByteAt(fragment, i)
         IN  IF h.tag # "Ok" THEN [tag |-> h.tag, val |-> <<>>]
             ELSE LET t == ParseBytes(fragment, i + 2, n - 1)
                  IN  IF t.tag # "Ok" THEN t
                      ELSE [tag |-> "Ok", val |-> <<h.val>> \o t.val]

\* the loop of Secret::from_str over the fragments
RECURSIVE SecretFragments(_)
SecretFragments(fragments) ==
    IF fragments = <<>> THEN [tag |-> "Ok", val |-> <<>>]
    ELSE LET fragment == Head(fragments)
         IN  IF Len(fragment) # 12 THEN [tag |-> "InvalidFragment", val |-> <<>>]
             ELSE LET b == ParseBytes(fragment, 0, 6)
                  IN  IF b.tag # "Ok" THEN [tag |-> b.tag, val |-> <<>>]
                      ELSE LET pair == Pair(Block_new(b.val[1], b.val[2], b.val[3]),
                                            Block_new(b.val[4], b.val[5], b.val[6]))
                               t == SecretFragments(Tail(fragments))
                           IN  IF t.tag # "Ok" THEN t
                               ELSE [tag |-> "Ok", val |-> <<pair>> \o t.val]

\* impl FromStr for Secret
Secret_from_str(t) == SecretFragments(split(t))

\* the loop of Key::from_str over the tail of the items
RECURSIVE KeyFragments(_)
KeyFragments(tail) ==
    IF tail = <<>> THEN [tag |-> "Ok", val |-> <<>>]
    ELSE LET fragment == Head(tail)
         IN  IF Len(fragment) # 4 THEN [tag |-> "InvalidFragment", val |-> <<>>]
             ELSE LET b == ParseBytes(fragment, 0, 2)
                  IN  IF b.tag # "Ok" THEN [tag |-> b.tag, val |-> <<>>]
                      ELSE LET t == KeyFragments(Tail(tail))
                           IN  IF t.tag # "Ok" THEN t
                               ELSE [tag |-> "Ok",
                                     val |-> <<Pair(b.val[1], b.val[2])>> \o t.val]

\* impl FromStr for Key
Key_from_str(t) ==
    LET items == split(t)
    IN  IF Len(items) < 3 THEN [tag |-> "NotEnoughItems", val |-> NoKey]
        ELSE LET sd == i64_from_str_radix(Head(items))
             IN  IF sd.tag # "Ok" THEN [tag |-> sd.tag, val |-> NoKey]
                 ELSE LET pairs == KeyFragments(Tail(items))
                      IN  IF pairs.tag # "Ok" THEN [tag |-> pairs.tag, val |-> NoKey]
                          ELSE [tag |-> "Ok",
                                val |-> [seed |-> sd.val,
                                         pairs |-> SubSeq(pairs.val, 1, Len(pairs.val) - 1),
                                         checksum |-> pairs.val[Len(pairs.val)]]]

-----------------------------------------------------------------------------
(* The values the operations are called with *)

\* the longest Secret, in pairs, that Spec builds
MaxPairs == 2
\* the most pairs a checksum call of SpecChecksum is given
MaxChecksumPairs == 2
\* the most secret fragments, and the most key items, in a text of SpecText
MaxFragments == 2
MaxItems == 4
\* the most pairs of a Key that SpecText formats
MaxKeyPairs == 2

\* all sequences over S with lo..hi elements
SeqsOf(S, lo, hi) == UNION {[1..n -> S] : n \in lo..hi}

\* seeds: 0, 0x70, 0x7B, 0xFF, 0x100, 0x3FF, 0x400, 2^32, i64::MAX, -1, i64::MIN
Seed7B == <<0, 0, 0, 0, 0, 0, 0, 123>>
Seeds ==
    { <<0, 0, 0, 0, 0, 0, 0, 0>>,   <<0, 0, 0, 0, 0, 0, 0, 112>>,
      Seed7B,                       <<0, 0, 0, 0, 0, 0, 0, 255>>,
      <<0, 0, 0, 0, 0, 0, 1, 0>>,   <<0, 0, 0, 0, 0, 0, 3, 255>>,
      <<0, 0, 0, 0, 0, 0, 4, 0>>,   <<0, 0, 0, 1, 0, 0, 0, 0>>,
      <<127, 255, 255, 255, 255, 255, 255, 255>>,
      <<255, 255, 255, 255, 255, 255, 255, 255>>,
      <<128, 0, 0, 0, 0, 0, 0, 0>> }

IsNegative(s) == s[1] >= 128

\* the pairs of the secret 0A6BBFAA6793-ABB734930FCD of test_validation,
\* the pair {1,2,3}/{5,6,7}, and a pair whose shifts are 0 and 24
ExamplePair1 == Pair(Block_new(10, 107, 191), Block_new(170, 103, 147))
ExamplePair2 == Pair(Block_new(171, 183, 52), Block_new(147, 15, 205))
ExampleSecret == <<ExamplePair1, ExamplePair2>>
BlockPairs ==
    { ExamplePair1, ExamplePair2,
      Pair(Block_new(1, 2, 3), Block_new(5, 6, 7)),
      Pair(Block_new(25, 1, 0), Block_new(24, 254, 255)) }

\* every Secret here is one Secret::from_str returns (for the text
\* Secret_fmt writes of it), so none is empty
Secrets == SeqsOf(BlockPairs, 1, MaxPairs)

Blocks ==
    { Block_new(a, b, c) : a \in {0, 1, 7, 8, 10, 23, 24, 25, 170, 255},
                           b \in {0, 1, 2, 3, 255},
                           c \in {0, 15, 170, 255} }

\* keys a caller may present that no Key::create call returned
BytePairs == {Pair(0, 0), Pair(191, 191)}
ForeignKeys ==
    { [seed |-> s, pairs |-> ps, checksum |-> c] :
        s \in {x \in Seeds : ~IsNegative(x)},
        ps \in SeqsOf(BytePairs, 1, MaxPairs),
        c \in {Pair(0, 0), Pair(227, 36)} }

\* a key that differs from k in one place: another seed, one bit of one
\* byte of a pair or of the checksum, one pair less or one pair more
Tampered(k) ==
    {[k EXCEPT !.seed = s] : s \in {x \in Seeds : ~IsNegative(x)} \ {k.seed}}
    \cup {[k EXCEPT !.pairs[i].left = BitXor(@, m)] :
            i \in 1..Len(k.pairs), m \in {1, 128}}
    \cup {[k EXCEPT !.pairs[i].right = BitXor(@, m)] :
            i \in 1..Len(k.pairs), m \in {1, 128}}
    \cup {[k EXCEPT !.checksum.left = BitXor(@, m)] : m \in {1, 128}}
    \cup {[k EXCEPT !.checksum.right = BitXor(@, m)] : m \in {1, 128}}
    \cup {[k EXCEPT !.pairs = SubSeq(@, 1, Len(@) - 1)] : x \in {0} \cap 2..Len(k.pairs)}
    \cup {[k EXCEPT !.pairs = Append(@, Pair(0, 0))]}

NoBlock == Block_new(0, 0, 0)
NoFrame == [pc |-> "idle", seed |-> NoKey.seed, pairs |-> <<>>, rest |-> <<>>,
            left |-> 0, right |-> 0, preLeft |-> 0, preRight |-> 0]

-----------------------------------------------------------------------------
(* Spec: deriving and checking keys *)

Init ==
    /\ op = "init"
    /\ secret = <<>>
    /\ seed = NoKey.seed
    /\ key = NoKey
    /\ res = "Ok"
    /\ block = NoBlock
    /\ byte = 0
    /\ text = <<>>
    /\ out = <<>>
    /\ parsed = NoKey
    /\ ck = NoFrame

\* a call of Block::produce on its own, before any Secret is in hand
Produce ==
    /\ op = "init"
    /\ \E blk \in Blocks, s \in Seeds :
        LET r == Block_produce(blk, s)
        IN  /\ block' = blk
            /\ seed' = s
            /\ res' = r.tag
            /\ byte' = r.val
    /\ op' = "Block::produce"
    /\ UNCHANGED <<secret, key, text, out, parsed, ck>>

\* the vendor takes a Secret
NewSecret ==
    /\ op \in {"init", "Block::produce"}
    /\ \E sec \in Secrets : secret' = sec
    /\ op' = "Secret"
    /\ res' = "Ok"
    /\ key' = NoKey
    /\ seed' = NoKey.seed
    /\ block' = NoBlock
    /\ byte' = 0
    /\ UNCHANGED <<text, out, parsed, ck>>

\* Key::create(seed, &secret)
Create ==
    /\ op = "Secret"
    /\ \E s \in Seeds :
        LET r == Key_create(s, secret)
        IN  /\ seed' = s
            /\ res' = r.tag
            /\ key' = r.val
    /\ op' = "Key::create"
    /\ UNCHANGED <<secret, block, byte, text, out, parsed, ck>>

\* the key just created comes back changed in one place
Tamper ==
    /\ op = "Key::create"
    /\ res = "Ok"
    /\ \E k \in Tampered(key) : key' = k
    /\ op' = "Key"
    /\ UNCHANGED <<secret, seed, res, block, byte, text, out, parsed, ck>>

\* a caller presents a key of its own
Present ==
    /\ op = "Secret"
    /\ \E k \in ForeignKeys : key' = k
    /\ op' = "Key"
    /\ UNCHANGED <<secret, seed, res, block, byte, text, out, parsed, ck>>

\* key.valid(&secret), on the key Key::create returned or on a presented one
Valid ==
    /\ \/ op = "Key::create" /\ res = "Ok"
       \/ op = "Key"
    /\ res' = IF Key_valid(key, secret) THEN "true" ELSE "false"
    /\ op' = IF op = "Key" THEN "Key;valid" ELSE "Key::create;valid"
    /\ UNCHANGED <<secret, seed, key, block, byte, text, out, parsed, ck>>

Next == Produce \/ NewSecret \/ Create \/ Tamper \/ Present \/ Valid

Spec == Init /\ [][Next]_vars

-----------------------------------------------------------------------------
(* SpecChecksum: one call of checksum, a byte of its input at a time *)

ChecksumBytePairs == {Pair(l, r) : l, r \in {0, 1, 128, 255}}

\* checksum(seed, &pairs) is entered: the accumulators are declared and the
\* bytes to feed to update are lined up
ChecksumCall ==
    /\ ck.pc = "idle"
    /\ \E s \in Seeds, ps \in SeqsOf(ChecksumBytePairs, 0, MaxChecksumPairs) :
        ck' = [pc |-> "loop", seed |-> s, pairs |-> ps,
               rest |-> ChecksumInput(s, ps),
               left |-> ChecksumInit.left, right |-> ChecksumInit.right,
               preLeft |-> 0, preRight |-> 0]
    /\ op' = "checksum"
    /\ UNCHANGED <<secret, seed, key, res, block, byte, text, out, parsed>>

\* one turn of the loop of update
ChecksumUpdate ==
    /\ ck.pc = "loop"
    /\ ck.rest # <<>>
    /\ LET u == update(ck, Head(ck.rest))
       IN  ck' = [ck EXCEPT !.rest = Tail(@),
                            !.left = u.left, !.right = u.right,
                            !.preLeft = u.preLeft, !.preRight = u.preRight]
    /\ UNCHANGED <<op, secret, seed, key, res, block, byte, text, out, parsed>>

\* the input is used up: the accumulators are narrowed and returned
ChecksumReturn ==
    /\ ck.pc = "loop"
    /\ ck.rest = <<>>
    /\ ck' = [ck EXCEPT !.pc = "done"]
    /\ res' = ChecksumResult(ck).tag
    /\ UNCHANGED <<op, secret, seed, key, block, byte, text, out, parsed>>

NextChecksum == ChecksumCall \/ ChecksumUpdate \/ ChecksumReturn

SpecChecksum == Init /\ [][NextChecksum]_vars

-----------------------------------------------------------------------------
(* SpecText: Secret and Key to and from text *)

\* fragments of a secret text: the two of test_format, then lower case, a
\* plus sign, 11 and 13 characters, a letter that is no digit, nothing, and
\* two 12-byte fragments that hold the 2-byte character U+00E9
SecretFragmentPool ==
    { <<"0", "A", "6", "B", "B", "F", "A", "A", "6", "7", "9", "3">>,
      <<"A", "B", "B", "7", "3", "4", "9", "3", "0", "F", "C", "D">>,
      <<"0", "a", "6", "b", "b", "f", "a", "a", "6", "7", "9", "3">>,
      <<"+", "A", "6", "B", "B", "F", "A", "A", "6", "7", "9", "3">>,
      <<"0", "A", "6", "B", "B", "F", "A", "A", "6", "7", "9">>,
      <<"0", "A", "6", "B", "B", "F", "A", "A", "6", "7", "9", "3", "0">>,
      <<"0", "G", "6", "B", "B", "F", "A", "A", "6", "7", "9", "3">>,
      <<>>,
      <<"0", LeadByte, ContByte, "6", "B", "B", "F", "A", "A", "6", "7", "9">>,
      <<LeadByte, ContByte, "6", "B", "B", "F", "A", "A", "6", "7", "9", "3">> }

\* first items of a key text
SeedItemPool ==
    { <<"0", "0", "7", "B">>,
      <<"1", "2", "3", "3">>,
      <<"7", "b">>,
      <<"+", "0", "7", "B">>,
      <<"0", "0", "0", "7", "B">>,
      <<"1", "2", "3", "4", "5">>,
      <<>>,
      <<"F", "F", "F", "F", "F", "F", "F", "F", "F", "F", "F", "F", "F", "F", "F", "F">>,
      <<LeadByte, ContByte>> }

\* later items of a key text: the two of test_format, then lower case, plus
\* signs, a letter that is no digit, 3 characters, and two 4-byte items
\* that hold U+00E9
PairItemPool ==
    { <<"A", "5", "B", "6">>,
      <<"4", "3", "2", "4">>,
      <<"b", "f", "b", "f">>,
      <<"+", "A", "+", "B">>,
      <<"1", "2", "G", "4">>,
      <<"1", "2", "3">>,
      <<"0", LeadByte, ContByte, "0">>,
      <<LeadByte, ContByte, LeadByte, ContByte>> }

\* the items joined by dashes
RECURSIVE Join(_)
Join(items) ==
    IF Len(items) = 1 THEN items[1]
    ELSE items[1] \o <<"-">> \o Join(Tail(items))

SecretTexts == {Join(fs) : fs \in SeqsOf(SecretFragmentPool, 1, MaxFragments)}

KeyTexts ==
    {Join(<<sd>> \o ps) : sd \in SeedItemPool,
                          ps \in SeqsOf(PairItemPool, 0, MaxItems - 1)}

\* the keys given to fmt: any seed, one or more pairs
KeysToFormat ==
    { [seed |-> s, pairs |-> ps, checksum |-> c] :
        s \in Seeds,
        ps \in SeqsOf(BytePairs \cup {Pair(10, 255)}, 1, MaxKeyPairs),
        c \in {Pair(0, 0), Pair(227, 36)} }

\* Secret::from_str(text)
SecretFromStr ==
    /\ op = "init"
    /\ \E t \in SecretTexts :
        LET r == Secret_from_str(t)
        IN  /\ text' = t
            /\ res' = r.tag
            /\ secret' = r.val
    /\ op' = "Secret::from_str"
    /\ UNCHANGED <<seed, key, block, byte, out, parsed, ck>>

\* the parsed Secret is formatted
SecretFmt ==
    /\ op = "Secret::from_str"
    /\ res = "Ok"
    /\ out' = Secret_fmt(secret)
    /\ op' = "Secret::from_str;fmt"
    /\ UNCHANGED <<secret, seed, key, res, block, byte, text, parsed, ck>>

\* Key::from_str(text): the key parsed is the key in hand
KeyFromStr ==
    /\ op = "init"
    /\ \E t \in KeyTexts :
        LET r == Key_from_str(t)
        IN  /\ text' = t
            /\ res' = r.tag
            /\ parsed' = r.val
            /\ key' = r.val
    /\ op' = "Key::from_str"
    /\ UNCHANGED <<secret, seed, block, byte, out, ck>>

\* a Key is in hand that was not parsed from text
HoldKey ==
    /\ op = "init"
    /\ \E k \in KeysToFormat : key' = k
    /\ op' = "Key"
    /\ UNCHANGED <<secret, seed, res, block, byte, text, out, parsed, ck>>

\* the key in hand is formatted
KeyFmt ==
    /\ \/ op = "Key::from_str" /\ res = "Ok"
       \/ op = "Key"
    /\ out' = Key_fmt(key)
    /\ op' = IF op = "Key" THEN "Key;fmt" ELSE "Key::from_str;fmt"
    /\ UNCHANGED <<secret, seed, key, res, block, byte, text, parsed, ck>>

\* the text fmt wrote of the key in hand is parsed again
KeyReparse ==
    /\ op = "Key;fmt"
    /\ LET r == Key_from_str(out)
       IN  /\ text' = out
           /\ res' = r.tag
           /\ parsed' = r.val
    /\ op' = "Key;fmt;from_str"
    /\ UNCHANGED <<secret, seed, key, block, byte, out, ck>>

NextText == SecretFromStr \/ SecretFmt \/ KeyFromStr \/ HoldKey \/ KeyFmt \/ KeyReparse

SpecText == Init /\ [][NextText]_vars

-----------------------------------------------------------------------------
(* The claims *)

\* what the two narrowings of Block::produce keep when they truncate: the
\* low-order byte of the shifted seed
LowByte(s) == s[8]

TruncatingProduce(blk, s) ==
    LET byte_a == LowByte(Shr(s, blk.a % 25))
        byte_b == LowByte(Shr(s, blk.b % 3))
        byte_c == IF blk.a % 2 = 0 THEN BitOr(byte_b, blk.c) ELSE BitAnd(byte_b, blk.c)
    IN  BitXor(byte_a, byte_c)

\* the key Key::create derives again from the key in hand
Rederived == Key_create(key.seed, secret)

\* C1: for every seed and every Secret, Key::create returns a key, and
\* valid of that key against the same Secret is true.
C1_CreatedKeyIsValid ==
    /\ op = "Key::create" => res = "Ok" /\ Key_valid(key, secret)
    /\ op = "Key::create;valid" => res = "true"

\* C2: Block::produce succeeds for every block and seed, and so Key::create
\* never returns an error.
C2_CreateNeverFails ==
    /\ op = "Block::produce" => res = "Ok"
    /\ op = "Key::create" => res = "Ok"

\* C3: Key::create returns a key with the given seed, one pair per pair of
\* the secret, in order, each the two bytes produce gives, and the rolling
\* checksum of the seed's bytes and the pairs' bytes; seed 123 with the
\* secret 0A6BBFAA6793-ABB734930FCD gives 007B-BFBF-3049-E324.
C3_CreateDerives ==
    op = "Key::create" =>
        /\ res = "Ok"
        /\ key.seed = seed
        /\ Len(key.pairs) = Len(secret)
        /\ \A i \in 1..Len(secret) :
              /\ key.pairs[i].left = Block_produce(secret[i].left, seed).val
              /\ key.pairs[i].right = Block_produce(secret[i].right, seed).val
        /\ key.checksum =
              LET acc == UpdateAll(ChecksumInit, to_be_bytes(seed) \o PairBytes(key.pairs))
              IN  Pair(acc.left, acc.right)
        /\ (secret = ExampleSecret /\ seed = Seed7B =>
              Key_fmt(key) = <<"0", "0", "7", "B", "-", "B", "F", "B", "F", "-",
                               "3", "0", "4", "9", "-", "E", "3", "2", "4">>)

\* C4: valid returns true or false, and true exactly when the key derived
\* again from the key's seed has the same seed, the same number of pairs,
\* the same bytes in every pair and the same checksum; the key
\* 0070-BFBF-3049-E324 is not valid against 0A6BBFAA6793-ABB734930FCD.
C4_ValidIffRederivedEqual ==
    op \in {"Key;valid", "Key::create;valid"} =>
        /\ res \in {"true", "false"}
        /\ (res = "true") <=>
              /\ Rederived.tag = "Ok"
              /\ Rederived.val.seed = key.seed
              /\ Len(Rederived.val.pairs) = Len(key.pairs)
              /\ \A i \in 1..Len(key.pairs) :
                    /\ Rederived.val.pairs[i].left = key.pairs[i].left
                    /\ Rederived.val.pairs[i].right = key.pairs[i].right
              /\ Rederived.val.checksum.left = key.checksum.left
              /\ Rederived.val.checksum.right = key.checksum.right
        /\ (/\ secret = ExampleSecret
            /\ key = [seed |-> <<0, 0, 0, 0, 0, 0, 0, 112>>,
                      pairs |-> <<Pair(191, 191), Pair(48, 73)>>,
                      checksum |-> Pair(227, 36)])
              => res = "false"

\* valid has answered false for a key that differs from the derived one in
\* one byte of the checksum only
C4_Witness ==
    /\ op = "Key;valid"
    /\ res = "false"
    /\ Rederived.tag = "Ok"
    /\ Rederived.val.seed = key.seed
    /\ Rederived.val.pairs = key.pairs
    /\ Rederived.val.checksum.left = key.checksum.left
    /\ Rederived.val.checksum.right # key.checksum.right

\* C9: Block::produce returns byte_a XOR byte_c for every block and seed,
\* byte_a and byte_b the low-order bytes of the seed shifted right by
\* a mod 25 and b mod 3, byte_c = byte_b OR c for an even a, byte_b AND c
\* for an odd one.
C9_ProduceTruncates ==
    op = "Block::produce" =>
        /\ res = "Ok"
        /\ byte = TruncatingProduce(block, seed)

\* C10: after every turn of update both accumulators are at most 0xFF, each
\* having been at most 0xFF + 0xFF before its subtraction, and the final
\* narrowing to bytes succeeds.
C10_AccumulatorsFitByte ==
    ck.pc \in {"loop", "done"} =>
        /\ ck.left <= 255
        /\ ck.right <= 255
        /\ ck.preLeft <= 255 + 255
        /\ ck.preRight <= 255 + 255
        /\ ck.pc = "done" => res = "Ok"

\* a checksum call over a seed and some pairs has returned, and the last
\* turn of update subtracted 0xFF from both of its sums
C10_Witness ==
    /\ ck.pc = "done"
    /\ res = "Ok"
    /\ ck.pairs # <<>>
    /\ ck.preRight > 255
    /\ ck.preLeft > 255

\* C5: the text fmt writes of a Key with one or more pairs, whatever its
\* seed, parses, and to a Key equal to it.
C5_KeyRoundTrip ==
    op = "Key;fmt;from_str" /\ Len(key.pairs) >= 1 =>
        /\ res = "Ok"
        /\ parsed = key

\* C6 as stated: for every text Secret parsing accepts, and every text Key
\* parsing accepts, formatting what was parsed writes the same text.
C6_FormatReproducesAcceptedText ==
    op \in {"Secret::from_str;fmt", "Key::from_str;fmt"} => out = text

\* text of dashes and upper-case hexadecimal digits only
UpperHexAndDashes(t) ==
    \A i \in 1..Len(t) : t[i] = "-" \/ \E d \in 1..16 : UpperHex[d] = t[i]

\* a seed item as "{:04X}" writes one: 4 digits, or more with no leading 0
CanonicalSeedItem(item) ==
    \/ Len(item) = 4
    \/ Len(item) > 4 /\ item[1] # "0"

\* C6 as amended: for every text Secret parsing accepts that holds only
\* dashes and upper-case hexadecimal digits, formatting the parsed Secret
\* writes the same text; and for every text Key parsing accepts that holds
\* only dashes and upper-case hexadecimal digits and whose first item has 4
\* digits, or more than 4 and no leading zero, formatting the parsed Key
\* writes the same text.
C6_FormatReproducesCanonicalText ==
    /\ op = "Secret::from_str;fmt" /\ UpperHexAndDashes(text) => out = text
    /\ (/\ op = "Key::from_str;fmt"
        /\ UpperHexAndDashes(text)
        /\ CanonicalSeedItem(Head(split(text))))
          => out = text

\* the key text 1233-A5B6-4324 of test_format was parsed and formatted
C6_Witness ==
    /\ op = "Key::from_str;fmt"
    /\ text = <<"1", "2", "3", "3", "-", "A", "5", "B", "6", "-", "4", "3", "2", "4">>
    /\ out = text

\* n hexadecimal digits and nothing else
IsHex(item, n) == Len(item) = n /\ \A i \in 1..n : to_digit(item[i]) >= 0

\* the byte the two digits at i and i+1 (from 1) of an item write
HexByte(item, i) == 16 * to_digit(item[i]) + to_digit(item[i + 1])

\* the first of the items from index lo on that is not n hexadecimal
\* digits, 0 when all are
FirstBad(items, lo, n) ==
    IF \A i \in lo..Len(items) : IsHex(items[i], n) THEN 0
    ELSE CHOOSE i \in lo..Len(items) :
            /\ ~IsHex(items[i], n)
            /\ \A j \in lo..(i - 1) : IsHex(items[j], n)

\* C7: Secret parsing succeeds only if every fragment is 12 hexadecimal
\* digits; a fragment of another length fails it with InvalidFragment, one
\* of 12 characters with a non-hexadecimal character with InvalidFormat;
\* on success a fragment's bytes are left.a, left.b, left.c, right.a,
\* right.b, right.c in this order.
C7_SecretParse ==
    op = "Secret::from_str" =>
        LET fs == split(text)
            bad == FirstBad(fs, 1, 12)
        IN  /\ res = "Ok" => bad = 0
            /\ bad # 0 /\ Len(fs[bad]) # 12 => res = "InvalidFragment"
            /\ bad # 0 /\ Len(fs[bad]) = 12 => res = "InvalidFormat"
            /\ res = "Ok" /\ bad = 0 =>
                  /\ Len(secret) = Len(fs)
                  /\ \A i \in 1..Len(fs) :
                        secret[i] =
                            Pair(Block_new(HexByte(fs[i], 1), HexByte(fs[i], 3), HexByte(fs[i], 5)),
                                 Block_new(HexByte(fs[i], 7), HexByte(fs[i], 9), HexByte(fs[i], 11)))

\* C8: Key parsing fails with NotEnoughItems on fewer than 3 items; else
\* every item after the first must be 4 hexadecimal characters,
\* InvalidFragment on another length, InvalidFormat on a non-hexadecimal
\* character; on success the last pair is the checksum and the ones before
\* it, one or more and in order, are the pairs; never a panic.
C8_KeyParse ==
    op = "Key::from_str" =>
        LET items == split(text)
            bad == FirstBad(items, 2, 4)
        IN  /\ res \in {"Ok", "NotEnoughItems", "InvalidFragment", "InvalidFormat"}
            /\ Len(items) < 3 <=> res = "NotEnoughItems"
            /\ res = "Ok" => bad = 0
            /\ res = "Ok" /\ bad = 0 =>
                  /\ Len(parsed.pairs) = Len(items) - 2
                  /\ Len(parsed.pairs) >= 1
                  /\ \A i \in 1..Len(parsed.pairs) :
                        parsed.pairs[i] = Pair(HexByte(items[i + 1], 1), HexByte(items[i + 1], 3))
                  /\ parsed.checksum =
                        Pair(HexByte(items[Len(items)], 1), HexByte(items[Len(items)], 3))

=============================================================================
